---- MODULE Spec2Model ----
(***************************************************************************)
(* Model of the three image utilities of static/: compress_gif.py,         *)
(* compress_png.py and image_info.py.                                      *)
(*                                                                         *)
(* Spec        the three scripts run over one directory (one run each)     *)
(* SpecResize  the proportional-resize computation on a range of sizes     *)
(* SpecHuman   human_size on byte counts up to 1024^5                      *)
(***************************************************************************)
EXTENDS Integers, Sequences, FiniteSets, TLC

(***************************************************************************)
(* Bounds of the model.                                                    *)
(***************************************************************************)
MaxFiles == 3
MaxSize == 2
MaxDim == 1
MaxWidthArg == 1
ResizeMaxDim == 50
ResizeMaxBound == 2

(***************************************************************************)
(* Python float arithmetic (IEEE-754 binary64, round to nearest, ties to   *)
(* even).  A significand is a natural number kept as a sequence of limbs   *)
(* in base 2^13, least significant first; a positive float is              *)
(* [sig, scale] with value sig * 2^(-scale).                               *)
(***************************************************************************)
MantissaBits == 53
LimbBits == MantissaBits \div 4
LimbBase == 2 ^ LimbBits

\* sig * m + carry
RECURSIVE BigMulAdd(_, _, _)
BigMulAdd(sig, m, carry) ==
    IF sig = <<>>
    THEN IF carry = 0 THEN <<>>
         ELSE <<carry % LimbBase>> \o BigMulAdd(<<>>, m, carry \div LimbBase)
    ELSE LET v == sig[1] * m + carry
         IN  <<v % LimbBase>> \o BigMulAdd(Tail(sig), m, v \div LimbBase)

RECURSIVE BitLen(_)
BitLen(n) == IF n = 0 THEN 0 ELSE 1 + BitLen(n \div 2)

\* number of significant bits (the top limb is not zero)
BigBitLen(sig) ==
    IF sig = <<>> THEN 0
    ELSE (Len(sig) - 1) * LimbBits + BitLen(sig[Len(sig)])

\* bit k of sig, bit 0 being the least significant
BigBit(sig, k) ==
    LET i == k \div LimbBits + 1
    IN  IF i > Len(sig) THEN 0 ELSE (sig[i] \div (2 ^ (k % LimbBits))) % 2

\* floor(sig / 2^d)
BigShiftRight(sig, d) ==
    LET whole == d \div LimbBits
        part  == d % LimbBits
        n     == Len(sig) - whole
        limb(i) == IF i > Len(sig) THEN 0 ELSE sig[i]
        out   == [i \in 1..n |->
                    limb(i + whole) \div (2 ^ part)
                    + (limb(i + whole + 1) % (2 ^ part)) * (2 ^ (LimbBits - part))]
    IN  IF n <= 0 THEN <<>>
        ELSE IF out[n] = 0 THEN SubSeq(out, 1, n - 1) ELSE out

RECURSIVE BigToNat(_)
BigToNat(sig) ==
    IF sig = <<>> THEN 0 ELSE sig[1] + LimbBase * BigToNat(Tail(sig))

\* round sig * 2^(-scale) to MantissaBits significant bits, ties to even
RoundNearestEven(sig, scale) ==
    LET d == BigBitLen(sig) - MantissaBits
    IN  IF d <= 0 THEN [sig |-> sig, scale |-> scale]
        ELSE LET keep   == BigShiftRight(sig, d)
                 guard  == BigBit(sig, d - 1) = 1
                 sticky == \E j \in 0..(d - 2) : BigBit(sig, j) = 1
                 up     == guard /\ (sticky \/ keep[1] % 2 = 1)
             IN  [sig   |-> IF up THEN BigMulAdd(keep, 1, 1) ELSE keep,
                  scale |-> scale - d]

\* least p with n * 2^p >= d
RECURSIVE Normalize(_, _, _)
Normalize(n, d, p) == IF n >= d THEN p ELSE Normalize(2 * n, d, p + 1)

\* the next k limbs of the quotient r / d (r < d), most significant first,
\* followed by the remainder
RECURSIVE QuotientLimbs(_, _, _)
QuotientLimbs(r, d, k) ==
    IF k = 0 THEN [limbs |-> <<>>, rem |-> r]
    ELSE LET s    == r * LimbBase
             more == QuotientLimbs(s % d, d, k - 1)
         IN  [limbs |-> Append(more.limbs, s \div d), rem |-> more.rem]

\* n / d for ints 0 < n < d (Python true division, correctly rounded)
FloatDiv(n, d) ==
    LET p    == Normalize(n, d, 0)
        n0   == n * (2 ^ p)
        q    == QuotientLimbs(n0 - d, d, (MantissaBits - 1) \div LimbBits)
        sig  == Append(q.limbs, 1)
        up   == \/ 2 * q.rem > d
                \/ 2 * q.rem = d /\ sig[1] % 2 = 1
    IN  [sig   |-> IF up THEN BigMulAdd(sig, 1, 1) ELSE sig,
         scale |-> p + MantissaBits - 1]

\* h * x for an int h > 0 and a float x (correctly rounded product)
FloatMul(h, x) == RoundNearestEven(BigMulAdd(x.sig, h, 0), x.scale)

\* int(x) for a float x >= 0: truncation toward zero
FloatToInt(x) == BigToNat(BigShiftRight(x.sig, x.scale))

(***************************************************************************)
(* Resize rule of both compressors:                                        *)
(*     ratio = max_width / width ; new_h = int(height * ratio)             *)
(***************************************************************************)
\* the height rounded to the nearest integer instead of truncated
NewHeightRounded(width, height, max_width) ==
    (2 * height * max_width + width) \div (2 * width)

NewHeight(width, height, max_width) ==
    LET ratio == FloatDiv(max_width, width)
    IN  FloatToInt(FloatMul(height, ratio))

\* the dimensions handed to img.resize / --resize, or << >> for none
ResizeTarget(dims, max_width) ==
    IF dims[1] > max_width
    THEN <<max_width, NewHeight(dims[1], dims[2], max_width)>>
    ELSE << >>

(***************************************************************************)
(* human_size.  A byte count is [neg, limbs]: its sign and its magnitude   *)
(* in base 1024, least significant limb first (no leading zero limb), so   *)
(* that counts beyond 2^31 can be formatted.  After k passes of            *)
(* "size_bytes /= 1024" the value is limbs / 1024^k, which a float holds   *)
(* exactly for every count below 2^53.  The result stands for the string   *)
(* f"{size_bytes:.1f} {unit}": sign, integer part, tenths digit, unit.     *)
(***************************************************************************)
Kilo == 1024

CompressorUnits == <<"B", "KB", "MB">>
CompressorLast == "GB"
ReporterUnits == <<"B", "KB", "MB", "GB">>
ReporterLast == "TB"

RECURSIVE ToLimbs(_)
ToLimbs(n) == IF n < Kilo THEN <<n>> ELSE <<n % Kilo>> \o ToLimbs(n \div Kilo)

Bytes(n) == [neg |-> n < 0, limbs |-> ToLimbs(IF n < 0 THEN 0 - n ELSE n)]

\* frac * 10 for a fraction given by its limbs: the carried-out digit and
\* the fraction that remains
RECURSIVE TimesTen(_, _)
TimesTen(frac, carry) ==
    IF frac = <<>> THEN [digit |-> carry, rem |-> <<>>]
    ELSE LET v    == 10 * frac[1] + carry
             rest == TimesTen(Tail(frac), v \div Kilo)
         IN  [digit |-> rest.digit, rem |-> <<v % Kilo>> \o rest.rem]

RECURSIVE IncLimbs(_)
IncLimbs(limbs) ==
    IF limbs = <<>> THEN <<1>>
    ELSE IF limbs[1] + 1 < Kilo THEN <<limbs[1] + 1>> \o Tail(limbs)
    ELSE <<0>> \o IncLimbs(Tail(limbs))

\* f"{x:.1f} {unit}" for x = size / 1024^k (round half to even)
FormatOneDecimal(size, k, unit) ==
    LET n     == Len(size.limbs)
        frac  == [i \in 1..k |-> IF i <= n THEN size.limbs[i] ELSE 0]
        whole == IF n > k THEN SubSeq(size.limbs, k + 1, n) ELSE <<0>>
        t     == TimesTen(frac, 0)
        lower == \E i \in 1..(k - 1) : t.rem[i] # 0
        above == k > 0 /\ (t.rem[k] > Kilo \div 2 \/ (t.rem[k] = Kilo \div 2 /\ lower))
        tie   == k > 0 /\ t.rem[k] = Kilo \div 2 /\ ~lower
        up    == above \/ (tie /\ t.digit % 2 = 1)
        digit == IF up THEN t.digit + 1 ELSE t.digit
    IN  [neg   |-> size.neg,
         whole |-> IF digit = 10 THEN IncLimbs(whole) ELSE whole,
         tenth |-> IF digit = 10 THEN 0 ELSE digit,
         unit  |-> unit]

\* "size_bytes < 1024" after k divisions by 1024
Below1024(size, k) == size.neg \/ Len(size.limbs) <= k + 1

RECURSIVE HumanLoop(_, _, _, _)
HumanLoop(size, units, last, k) ==
    IF k = Len(units) THEN FormatOneDecimal(size, k, last)
    ELSE IF Below1024(size, k) THEN FormatOneDecimal(size, k, units[k + 1])
    ELSE HumanLoop(size, units, last, k + 1)

human_size(size_bytes, units, last) == HumanLoop(size_bytes, units, last, 0)

(***************************************************************************)
(* The directory and the three scripts.                                    *)
(*                                                                         *)
(* A file on disk is [ext, size, dims, readable, ver]: readable tells      *)
(* whether Pillow can open and decode it, ver counts how often its         *)
(* content has been replaced.  Files are listed in name order, so the      *)
(* position of a file in disk stands for its name.                         *)
(***************************************************************************)
VARIABLES
    script,      \* which of the three scripts runs
    max_width,   \* args.max_width
    disk,        \* the files of STATIC_DIR, in name order
    orig,        \* the directory as it was when the script started
    tmp,         \* tmp[i]: the file "<path>.tmp" of file i, or Absent
    files,       \* main: the sorted listing (positions in disk)
    pos,         \* main: number of loop iterations completed
    pc,          \* "main", "loop", "tool", "done", "aborted"
    frame,       \* compress_gif: locals while the external tool has returned
    rets,        \* the tuples returned by compress_gif / compress_image
    rows,        \* the table rows printed so far
    total_old,
    total_new,
    summary,     \* the last line printed, or NotPrinted
    tool_log,    \* the runs of the external tool: command and outcome
    size_bytes,  \* SpecHuman: the argument of human_size
    text         \* SpecHuman: what human_size returned, or NotPrinted

vars == <<script, max_width, disk, orig, tmp, files, pos, pc, frame, rets,
          rows, total_old, total_new, summary, tool_log, size_bytes, text>>

\* the variables of SpecHuman, which no script touches
human == <<size_bytes, text>>

Absent == [absent |-> TRUE]
NotPrinted == [printed |-> FALSE]
NoFrame == [running |-> FALSE]
NoResize == << >>

\* Python values of compress_gif's last result: None or a string
None == [none |-> TRUE]
Str(s) == [str |-> s]

Message(s) == [message |-> s]

GifExts == {".gif"}
PngExts == {".png", ".jpg", ".jpeg"}
InfoExts == {".png", ".jpg", ".jpeg", ".gif", ".webp", ".svg", ".bmp"}

\* extensions of the files the model puts in the directory
Exts == {".gif", ".png", ".jpg", ".txt"}

\* stderr of the external tool, as tokens; a process killed by a signal
\* leaves it empty
Whitespace == {" ", "\n"}
Stderrs == {<<>>, <<"gifsicle: error", "\n">>}

RECURSIVE StripLeft(_)
StripLeft(s) ==
    IF s # <<>> /\ s[1] \in Whitespace THEN StripLeft(Tail(s)) ELSE s

RECURSIVE StripRight(_)
StripRight(s) ==
    IF s # <<>> /\ s[Len(s)] \in Whitespace
    THEN StripRight(SubSeq(s, 1, Len(s) - 1)) ELSE s

\* str.strip()
Strip(s) == StripRight(StripLeft(s))

\* the images of the directory are square, w x w; a file Pillow cannot
\* read has no dimensions
Readable(e) ==
    { [ext |-> e, size |-> s, dims |-> <<w, w>>, readable |-> TRUE, ver |-> 0] :
        s \in 1..MaxSize, w \in 1..MaxDim }

Corrupt(e) ==
    { [ext |-> e, size |-> MaxSize, dims |-> <<0, 0>>, readable |-> FALSE,
       ver |-> 0] }

FileRecs == UNION { Readable(e) \cup Corrupt(e) : e \in Exts }

Directories == UNION { [1..n -> FileRecs] : n \in 0..MaxFiles }

\* sorted(f for f in os.listdir(STATIC_DIR) if <extension of f> in exts)
Listing(d, exts) ==
    SelectSeq([i \in 1..Len(d) |-> i], LAMBDA i : d[i].ext \in exts)

Sum(seq, field) ==
    LET RECURSIVE S(_)
        S(n) == IF n = 0 THEN 0 ELSE S(n - 1) + seq[n][field]
    IN  S(Len(seq))

Init ==
    /\ script \in {"gif", "png", "info"}
    /\ max_width \in 1..MaxWidthArg
    /\ disk \in Directories
    /\ orig = disk
    /\ tmp = [i \in 1..Len(disk) |-> Absent]
    /\ files = <<>>
    /\ pos = 0
    /\ pc = "main"
    /\ frame = NoFrame
    /\ rets = <<>>
    /\ rows = <<>>
    /\ total_old = 0
    /\ total_new = 0
    /\ summary = NotPrinted
    /\ tool_log = <<>>
    /\ size_bytes = Bytes(0)
    /\ text = NotPrinted

\* main() up to the loop: the listing, the early return, the header
Main(exts, nothing) ==
    /\ pc = "main"
    /\ files' = Listing(disk, exts)
    /\ IF files' = <<>>
       THEN pc' = "done" /\ summary' = nothing
       ELSE pc' = "loop" /\ summary' = summary
    /\ total_old' = 0
    /\ total_new' = 0
    /\ UNCHANGED <<script, max_width, disk, orig, tmp, pos, frame, rets, rows,
                   tool_log, human>>

compress_gif_main ==
    /\ script = "gif"
    /\ Main(GifExts, Message("No GIF files found."))

compress_png_main ==
    /\ script = "png"
    /\ Main(PngExts, Message("No PNG/JPG files found."))

image_info_main ==
    /\ script = "info"
    /\ Main(InfoExts, Message("No image files found."))

\* the percentage of the totals line, as the fraction num / den
Percent(saved_total, total) ==
    IF total # 0 THEN [num |-> saved_total * 100, den |-> total]
    ELSE [num |-> 0, den |-> 1]

\* what the compressors print for one file
DimsStr(old_d, new_d) == IF old_d # new_d THEN <<old_d, "->", new_d>> ELSE <<old_d>>

CompressorSize(n) == human_size(Bytes(n), CompressorUnits, CompressorLast)

(***************************************************************************)
(* compress_gif.py                                                         *)
(***************************************************************************)
\* what gifsicle writes for --resize=WxH; a height of 0 leaves the height
\* to the tool, which keeps at least one row
ToolDims(old_dims, target) ==
    IF target = NoResize THEN old_dims
    ELSE IF target[2] = 0 THEN <<target[1], 1>> ELSE target

\* compress_gif up to the return of subprocess.run: sizes and dimensions
\* are measured, the command is built and the tool runs.  On exit 0 the
\* tool has written the temporary file; on failure it may have left a
\* partial one.
GifRunTool ==
    /\ pc = "loop"
    /\ script = "gif"
    /\ pos < Len(files)
    /\ LET f == files[pos + 1] IN
       /\ disk[f].readable
       /\ \E ok \in BOOLEAN, out_size \in 1..MaxSize, wrote \in BOOLEAN,
             stderr \in Stderrs :
            LET resize == ResizeTarget(disk[f].dims, max_width)
                out    == IF ok THEN [size |-> out_size,
                                      dims |-> ToolDims(disk[f].dims, resize)]
                          ELSE IF wrote THEN [size |-> out_size, dims |-> <<0, 0>>]
                          ELSE Absent
            IN
            /\ ok => (wrote /\ stderr = <<>>)
            /\ ~ok => out_size = 1
            /\ frame' = [old_size   |-> disk[f].size,
                         old_dims   |-> disk[f].dims,
                         returncode |-> IF ok THEN 0 ELSE 1,
                         stderr     |-> stderr]
            /\ tmp' = [tmp EXCEPT ![f] = out]
            /\ tool_log' = Append(tool_log,
                               [file |-> f, resize |-> resize,
                                returncode |-> frame'.returncode,
                                stderr |-> stderr, out |-> out])
    /\ pc' = "tool"
    /\ UNCHANGED <<script, max_width, disk, orig, files, pos, rets, rows,
                   total_old, total_new, summary, human>>

\* get_gif_dims raises on a file Pillow cannot open: the run ends there
GifOpenFails ==
    /\ pc = "loop"
    /\ script = "gif"
    /\ pos < Len(files)
    /\ ~disk[files[pos + 1]].readable
    /\ pc' = "aborted"
    /\ UNCHANGED <<script, max_width, disk, orig, tmp, files, pos, frame,
                   rets, rows, total_old, total_new, summary, tool_log, human>>

\* compress_gif without the size comparison: the output always replaces
\* the original
compress_gif_noguard(f, fr, d, t) ==
    IF fr.returncode # 0
    THEN [ret  |-> [old_size |-> fr.old_size, new_size |-> fr.old_size,
                    old_dims |-> fr.old_dims, new_dims |-> fr.old_dims,
                    err |-> Str(Strip(fr.stderr))],
          disk |-> d,
          tmp  |-> [t EXCEPT ![f] = Absent]]
    ELSE [ret  |-> [old_size |-> fr.old_size, new_size |-> t[f].size,
                    old_dims |-> fr.old_dims, new_dims |-> t[f].dims,
                    err |-> None],
          disk |-> [d EXCEPT ![f] = [ext |-> d[f].ext, size |-> t[f].size,
                                     dims |-> t[f].dims, readable |-> TRUE,
                                     ver |-> d[f].ver + 1]],
          tmp  |-> [t EXCEPT ![f] = Absent]]

\* compress_gif comparing with <= instead of <
compress_gif_le(f, fr, d, t) ==
    IF fr.returncode # 0
    THEN [ret  |-> [old_size |-> fr.old_size, new_size |-> fr.old_size,
                    old_dims |-> fr.old_dims, new_dims |-> fr.old_dims,
                    err |-> Str(Strip(fr.stderr))],
          disk |-> d,
          tmp  |-> [t EXCEPT ![f] = Absent]]
    ELSE IF t[f].size <= fr.old_size
    THEN [ret  |-> [old_size |-> fr.old_size, new_size |-> t[f].size,
                    old_dims |-> fr.old_dims, new_dims |-> t[f].dims,
                    err |-> None],
          disk |-> [d EXCEPT ![f] = [ext |-> d[f].ext, size |-> t[f].size,
                                     dims |-> t[f].dims, readable |-> TRUE,
                                     ver |-> d[f].ver + 1]],
          tmp  |-> [t EXCEPT ![f] = Absent]]
    ELSE [ret  |-> [old_size |-> fr.old_size, new_size |-> fr.old_size,
                    old_dims |-> fr.old_dims, new_dims |-> d[f].dims,
                    err |-> None],
          disk |-> d,
          tmp  |-> [t EXCEPT ![f] = Absent]]

\* compress_gif without the returncode test: whatever the tool left in
\* the temporary file is compared and promoted
compress_gif_unchecked(f, fr, d, t) ==
    IF t[f] = Absent
    THEN [ret  |-> [old_size |-> fr.old_size, new_size |-> fr.old_size,
                    old_dims |-> fr.old_dims, new_dims |-> fr.old_dims,
                    err |-> Str(Strip(fr.stderr))],
          disk |-> d,
          tmp  |-> t]
    ELSE IF t[f].size < fr.old_size
    THEN [ret  |-> [old_size |-> fr.old_size, new_size |-> t[f].size,
                    old_dims |-> fr.old_dims, new_dims |-> t[f].dims,
                    err |-> None],
          disk |-> [d EXCEPT ![f] = [ext |-> d[f].ext, size |-> t[f].size,
                                     dims |-> t[f].dims,
                                     readable |-> fr.returncode = 0,
                                     ver |-> d[f].ver + 1]],
          tmp  |-> [t EXCEPT ![f] = Absent]]
    ELSE [ret  |-> [old_size |-> fr.old_size, new_size |-> fr.old_size,
                    old_dims |-> fr.old_dims, new_dims |-> d[f].dims,
                    err |-> None],
          disk |-> d,
          tmp  |-> [t EXCEPT ![f] = Absent]]

\* compress_gif without the cleanup of the failure path
compress_gif_leak(f, fr, d, t) ==
    IF fr.returncode # 0
    THEN [ret  |-> [old_size |-> fr.old_size, new_size |-> fr.old_size,
                    old_dims |-> fr.old_dims, new_dims |-> fr.old_dims,
                    err |-> Str(Strip(fr.stderr))],
          disk |-> d,
          tmp  |-> t]
    ELSE IF t[f].size < fr.old_size
    THEN [ret  |-> [old_size |-> fr.old_size, new_size |-> t[f].size,
                    old_dims |-> fr.old_dims, new_dims |-> t[f].dims,
                    err |-> None],
          disk |-> [d EXCEPT ![f] = [ext |-> d[f].ext, size |-> t[f].size,
                                     dims |-> t[f].dims, readable |-> TRUE,
                                     ver |-> d[f].ver + 1]],
          tmp  |-> [t EXCEPT ![f] = Absent]]
    ELSE [ret  |-> [old_size |-> fr.old_size, new_size |-> fr.old_size,
                    old_dims |-> fr.old_dims, new_dims |-> d[f].dims,
                    err |-> None],
          disk |-> d,
          tmp  |-> [t EXCEPT ![f] = Absent]]

\* the rest of compress_gif: the value returned and the files left behind
compress_gif(f, fr, d, t) ==
    IF fr.returncode # 0
    THEN [ret  |-> [old_size |-> fr.old_size, new_size |-> fr.old_size,
                    old_dims |-> fr.old_dims, new_dims |-> fr.old_dims,
                    err |-> Str(Strip(fr.stderr))],
          disk |-> d,
          tmp  |-> [t EXCEPT ![f] = Absent]]
    ELSE IF t[f].size < fr.old_size
    THEN [ret  |-> [old_size |-> fr.old_size, new_size |-> t[f].size,
                    old_dims |-> fr.old_dims, new_dims |-> t[f].dims,
                    err |-> None],
          disk |-> [d EXCEPT ![f] = [ext |-> d[f].ext, size |-> t[f].size,
                                     dims |-> t[f].dims, readable |-> TRUE,
                                     ver |-> d[f].ver + 1]],
          tmp  |-> [t EXCEPT ![f] = Absent]]
    ELSE [ret  |-> [old_size |-> fr.old_size, new_size |-> fr.old_size,
                    old_dims |-> fr.old_dims, new_dims |-> d[f].dims,
                    err |-> None],
          disk |-> d,
          tmp  |-> [t EXCEPT ![f] = Absent]]

\* "if err": None and the empty string are false
Truthy(err) == err # None /\ err # Str(<<>>)

GifRow(f, r) ==
    [file   |-> f,
     before |-> CompressorSize(r.old_size),
     after  |-> CompressorSize(r.new_size),
     saved  |-> CompressorSize(r.old_size - r.new_size),
     dims   |-> DimsStr(r.old_dims, r.new_dims),
     status |-> IF Truthy(r.err) THEN <<" [ERR: ", r.err.str, "]">> ELSE <<>>]

\* compress_gif returns and main adds the file to the totals and prints
\* its row
GifFinish ==
    /\ pc = "tool"
    /\ LET f == files[pos + 1]
           c == compress_gif(f, frame, disk, tmp)
       IN  /\ disk' = c.disk
           /\ tmp' = c.tmp
           /\ rets' = Append(rets, c.ret)
           /\ total_old' = total_old + c.ret.old_size
           /\ total_new' = total_new + c.ret.new_size
           /\ rows' = Append(rows, GifRow(f, c.ret))
    /\ frame' = NoFrame
    /\ pos' = pos + 1
    /\ pc' = "loop"
    /\ UNCHANGED <<script, max_width, orig, files, summary, tool_log, human>>

\* the totals line with the difference taken the wrong way round
TotalsLineSwapped ==
    [total_old |-> CompressorSize(total_old),
     total_new |-> CompressorSize(total_new),
     saved     |-> CompressorSize(total_new - total_old),
     pct       |-> Percent(total_new - total_old, total_old)]

\* the totals line of both compressors
TotalsLine ==
    [total_old |-> CompressorSize(total_old),
     total_new |-> CompressorSize(total_new),
     saved     |-> CompressorSize(total_old - total_new),
     pct       |-> Percent(total_old - total_new, total_old)]

GifSummary ==
    /\ pc = "loop"
    /\ script = "gif"
    /\ pos = Len(files)
    /\ summary' = TotalsLine
    /\ pc' = "done"
    /\ UNCHANGED <<script, max_width, disk, orig, tmp, files, pos, frame,
                   rets, rows, total_old, total_new, tool_log, human>>

(***************************************************************************)
(* compress_png.py                                                         *)
(***************************************************************************)
\* Image.open raises on a file Pillow cannot read, and Image.resize raises
\* when asked for a height of 0
ImageRaises(file, mw) ==
    \/ ~file.readable
    \/ LET target == ResizeTarget(file.dims, mw)
       IN  target # NoResize /\ target[2] = 0

\* compress_image with the size guard of compress_gif: a result that is
\* not smaller is dropped
compress_image_guarded(f, d, mw, encoded) ==
    LET target   == ResizeTarget(d[f].dims, mw)
        new_dims == IF target = NoResize THEN d[f].dims ELSE target
    IN  IF encoded < d[f].size
        THEN [ret  |-> [old_size |-> d[f].size, new_size |-> encoded,
                        old_dims |-> d[f].dims, new_dims |-> new_dims],
              disk |-> [d EXCEPT ![f] = [ext |-> d[f].ext, size |-> encoded,
                                         dims |-> new_dims, readable |-> TRUE,
                                         ver |-> d[f].ver + 1]]]
        ELSE [ret  |-> [old_size |-> d[f].size, new_size |-> d[f].size,
                        old_dims |-> d[f].dims, new_dims |-> d[f].dims],
              disk |-> d]

\* compress_image: the image is resized when too wide and saved over the
\* source file, whatever size the encoder produces (encoded)
compress_image(f, d, mw, encoded) ==
    LET target   == ResizeTarget(d[f].dims, mw)
        new_dims == IF target = NoResize THEN d[f].dims ELSE target
    IN  [ret  |-> [old_size |-> d[f].size, new_size |-> encoded,
                   old_dims |-> d[f].dims, new_dims |-> new_dims],
         disk |-> [d EXCEPT ![f] = [ext |-> d[f].ext, size |-> encoded,
                                    dims |-> new_dims, readable |-> TRUE,
                                    ver |-> d[f].ver + 1]]]

PngRow(f, r) ==
    [file   |-> f,
     before |-> CompressorSize(r.old_size),
     after  |-> CompressorSize(r.new_size),
     saved  |-> CompressorSize(r.old_size - r.new_size),
     dims   |-> DimsStr(r.old_dims, r.new_dims)]

\* one iteration of main's loop
PngCompress ==
    /\ pc = "loop"
    /\ script = "png"
    /\ pos < Len(files)
    /\ LET f == files[pos + 1] IN
       /\ ~ImageRaises(disk[f], max_width)
       /\ \E encoded \in 1..MaxSize :
            LET c == compress_image(f, disk, max_width, encoded) IN
            /\ disk' = c.disk
            /\ rets' = Append(rets, c.ret)
            /\ total_old' = total_old + c.ret.old_size
            /\ total_new' = total_new + c.ret.new_size
            /\ rows' = Append(rows, PngRow(f, c.ret))
    /\ pos' = pos + 1
    /\ UNCHANGED <<script, max_width, orig, tmp, files, pc, frame, summary,
                   tool_log, human>>

\* the exception leaves compress_image and main: the run ends at this file
PngFails ==
    /\ pc = "loop"
    /\ script = "png"
    /\ pos < Len(files)
    /\ ImageRaises(disk[files[pos + 1]], max_width)
    /\ pc' = "aborted"
    /\ UNCHANGED <<script, max_width, disk, orig, tmp, files, pos, frame,
                   rets, rows, total_old, total_new, summary, tool_log, human>>

PngSummary ==
    /\ pc = "loop"
    /\ script = "png"
    /\ pos = Len(files)
    /\ summary' = TotalsLine
    /\ pc' = "done"
    /\ UNCHANGED <<script, max_width, disk, orig, tmp, files, pos, frame,
                   rets, rows, total_old, total_new, tool_log, human>>

(***************************************************************************)
(* image_info.py                                                           *)
(***************************************************************************)
\* what Pillow finds in a readable .gif: the number of frames and the
\* info dictionary (a still image has no "duration")
GifMetas == { [nframes |-> 1, info |-> << >>],
              [nframes |-> 3, info |-> [duration |-> 100]] }

ReporterSize(n) == human_size(Bytes(n), ReporterUnits, ReporterLast)

\* the seek loop of get_gif_info on an image of nframes frames
RECURSIVE CountFrames(_, _, _)
CountFrames(frames, tell, nframes) ==
    IF tell + 1 >= nframes THEN frames + 1
    ELSE CountFrames(frames + 1, tell + 1, nframes)

get_gif_info(meta) ==
    [frames   |-> CountFrames(0, 0, meta.nframes),
     duration |-> IF "duration" \in DOMAIN meta.info
                  THEN meta.info.duration ELSE 0]

\* the probe inside try/except
ProbeDims(file) ==
    IF file.readable THEN <<file.dims[1], "x", file.dims[2]>> ELSE <<"N/A">>

\* one iteration of the reporter's loop; total_old holds total_size
InfoStep ==
    /\ pc = "loop"
    /\ script = "info"
    /\ pos < Len(files)
    /\ LET f == files[pos + 1] IN
       /\ disk[f].ext = ".gif" => disk[f].readable
       /\ total_old' = total_old + disk[f].size
       /\ \E meta \in GifMetas :
            /\ disk[f].ext # ".gif" => meta.nframes = 1
            /\ rows' = Append(rows,
                   [file  |-> f,
                    size  |-> ReporterSize(disk[f].size),
                    dims  |-> ProbeDims(disk[f]),
                    extra |-> IF disk[f].ext = ".gif"
                              THEN get_gif_info(meta) ELSE <<>>])
    /\ pos' = pos + 1
    /\ UNCHANGED <<script, max_width, disk, orig, tmp, files, pc, frame,
                   rets, total_new, summary, tool_log, human>>

\* get_gif_info opens the file outside any try: a .gif Pillow cannot open
\* ends the run, after its size was added to total_size
InfoFails ==
    /\ pc = "loop"
    /\ script = "info"
    /\ pos < Len(files)
    /\ LET f == files[pos + 1] IN
       /\ disk[f].ext = ".gif"
       /\ ~disk[f].readable
       /\ total_old' = total_old + disk[f].size
    /\ pc' = "aborted"
    /\ UNCHANGED <<script, max_width, disk, orig, tmp, files, pos, frame,
                   rets, rows, total_new, summary, tool_log, human>>

InfoSummary ==
    /\ pc = "loop"
    /\ script = "info"
    /\ pos = Len(files)
    /\ summary' = [total |-> ReporterSize(total_old)]
    /\ pc' = "done"
    /\ UNCHANGED <<script, max_width, disk, orig, tmp, files, pos, frame,
                   rets, rows, total_old, total_new, tool_log, human>>

Next ==
    \/ compress_gif_main
    \/ GifRunTool
    \/ GifOpenFails
    \/ GifFinish
    \/ GifSummary
    \/ compress_png_main
    \/ PngCompress
    \/ PngFails
    \/ PngSummary
    \/ image_info_main
    \/ InfoStep
    \/ InfoFails
    \/ InfoSummary

Spec == Init /\ [][Next]_vars

\* the interpreter runs the script to its end: some step is always taken
FairSpec == Spec /\ WF_vars(Next)

(***************************************************************************)
(* SpecResize: the two compressors on a directory of one readable image    *)
(* of any dimensions up to ResizeMaxDim.                                   *)
(***************************************************************************)
ResizeInit ==
    /\ script \in {"gif", "png"}
    /\ max_width \in 1..ResizeMaxBound
    /\ \E w \in 1..ResizeMaxDim, h \in 1..ResizeMaxDim :
         disk = << [ext      |-> IF script = "gif" THEN ".gif" ELSE ".png",
                    size     |-> MaxSize,
                    dims     |-> <<w, h>>,
                    readable |-> TRUE,
                    ver      |-> 0] >>
    /\ orig = disk
    /\ tmp = <<Absent>>
    /\ files = <<>>
    /\ pos = 0
    /\ pc = "main"
    /\ frame = NoFrame
    /\ rets = <<>>
    /\ rows = <<>>
    /\ total_old = 0
    /\ total_new = 0
    /\ summary = NotPrinted
    /\ tool_log = <<>>
    /\ size_bytes = Bytes(0)
    /\ text = NotPrinted

ResizeNext ==
    \/ compress_gif_main
    \/ GifRunTool
    \/ GifFinish
    \/ GifSummary
    \/ compress_png_main
    \/ PngCompress
    \/ PngFails
    \/ PngSummary

SpecResize == ResizeInit /\ [][ResizeNext]_vars

(***************************************************************************)
(* SpecHuman: human_size applied to one byte count.  The compressors pass  *)
(* sizes and differences of sizes (negative when a file grew), the         *)
(* reporter passes sizes.                                                  *)
(***************************************************************************)
LimbValues == {0, 1, 511, 512, 1023}

\* byte counts below 1024^n, n the number of units of the reporter
Magnitudes ==
    UNION { { l \in [1..n -> LimbValues] : n > 1 => l[n] # 0 } :
            n \in 1..(Len(ReporterUnits) + 1) }

HumanInit ==
    /\ script \in {"gif", "png", "info"}
    /\ size_bytes \in { [neg |-> b, limbs |-> l] :
                          b \in BOOLEAN, l \in Magnitudes \ {<<0>>} }
                      \cup { [neg |-> FALSE, limbs |-> <<0>>] }
    /\ script # "png" => ~size_bytes.neg
    /\ text = NotPrinted
    /\ max_width = 1
    /\ disk = <<>>
    /\ orig = disk
    /\ tmp = <<>>
    /\ files = <<>>
    /\ pos = 0
    /\ pc = "human_size"
    /\ frame = NoFrame
    /\ rets = <<>>
    /\ rows = <<>>
    /\ total_old = 0
    /\ total_new = 0
    /\ summary = NotPrinted
    /\ tool_log = <<>>

scripts == <<script, max_width, disk, orig, tmp, files, pos, frame, rets,
             rows, total_old, total_new, summary, tool_log>>

\* human_size of compress_gif.py and compress_png.py
HumanCompressor ==
    /\ pc = "human_size"
    /\ script \in {"gif", "png"}
    /\ text' = human_size(size_bytes, CompressorUnits, CompressorLast)
    /\ pc' = "returned"
    /\ UNCHANGED <<scripts, size_bytes>>

\* human_size of image_info.py
HumanReporter ==
    /\ pc = "human_size"
    /\ script = "info"
    /\ text' = human_size(size_bytes, ReporterUnits, ReporterLast)
    /\ pc' = "returned"
    /\ UNCHANGED <<scripts, size_bytes>>

HumanNext == HumanCompressor \/ HumanReporter

SpecHuman == HumanInit /\ [][HumanNext]_vars

(***************************************************************************)
(* Properties.  rets[i], rows[i] and tool_log[i] belong to files[i].       *)
(***************************************************************************)
\* C1: the GIF compressor never increases a file: whatever the tool did,
\* the reported new_size and the size on disk are at most the old size,
\* and an output that is not smaller is discarded.
C1_GifNeverGrows ==
    script = "gif" =>
        /\ \A f \in 1..Len(disk) : disk[f].size <= orig[f].size
        /\ \A i \in 1..Len(rets) :
             /\ rets[i].new_size <= rets[i].old_size
             /\ disk[files[i]].size <= rets[i].old_size
             /\ (tool_log[i].returncode = 0
                   /\ tool_log[i].out.size >= rets[i].old_size)
                => disk[files[i]] = orig[files[i]]

C1_Witness ==
    /\ script = "gif"
    /\ \E i \in 1..Len(rets) :
         /\ tool_log[i].returncode = 0
         /\ tool_log[i].out.size > rets[i].old_size

\* C2: when the tool exits non-zero the file is untouched, new_size is
\* old_size, the new dimensions are the old ones and the tool's error
\* text is returned.
C2_FailureLeavesFile ==
    script = "gif" =>
        \A i \in 1..Len(rets) :
            tool_log[i].returncode # 0 =>
                /\ disk[files[i]] = orig[files[i]]
                /\ rets[i].old_size = orig[files[i]].size
                /\ rets[i].new_size = rets[i].old_size
                /\ rets[i].old_dims = orig[files[i]].dims
                /\ rets[i].new_dims = rets[i].old_dims
                /\ rets[i].err = Str(Strip(tool_log[i].stderr))

C2_Witness ==
    /\ script = "gif"
    /\ \E i \in 1..Len(rets) :
         /\ tool_log[i].returncode # 0
         /\ tool_log[i].out # Absent
         /\ tool_log[i].resize # NoResize
         /\ tool_log[i].stderr # <<>>

\* C3: once compress_gif has returned, no "<path>.tmp" exists, on the
\* failure path and on both success paths.
C3_NoTmpLeft ==
    (script = "gif" /\ pc # "tool") =>
        \A f \in 1..Len(tmp) : tmp[f] = Absent

C3_Witness ==
    /\ script = "gif"
    /\ pc = "done"
    /\ \E i \in 1..Len(rets) :
         tool_log[i].returncode # 0 /\ tool_log[i].out # Absent
    /\ \E i \in 1..Len(rets) :
         tool_log[i].returncode = 0
           /\ tool_log[i].out.size >= rets[i].old_size

\* the resize a compressor asked for, for the dimensions it found
Nearest(n, num, den) == 2 * (n * den - num) \in (0 - den)..den

Truncated(n, num, den) ==
    /\ n <= num \div den
    /\ n >= num \div den - 1
    /\ num % den # 0 => n = num \div den

ResizeFollows(Rule(_, _, _)) ==
    /\ script = "png" =>
         \A i \in 1..Len(rets) :
            LET w == rets[i].old_dims[1]
                h == rets[i].old_dims[2]
            IN  IF w > max_width
                THEN /\ rets[i].new_dims[1] = max_width
                     /\ Rule(rets[i].new_dims[2], h * max_width, w)
                ELSE rets[i].new_dims = rets[i].old_dims
    /\ script = "gif" =>
         \A i \in 1..Len(tool_log) :
            LET w == orig[tool_log[i].file].dims[1]
                h == orig[tool_log[i].file].dims[2]
            IN  IF w > max_width
                THEN /\ tool_log[i].resize # NoResize
                     /\ tool_log[i].resize[1] = max_width
                     /\ Rule(tool_log[i].resize[2], h * max_width, w)
                ELSE tool_log[i].resize = NoResize

C5_LargestUnit ==
    pc = "returned" =>
        LET last == IF script = "info" THEN ReporterLast ELSE CompressorLast
        IN  /\ text.unit # last => Len(text.whole) = 1
            /\ text.unit # "B" => text.whole # <<0>>

\* C6: the reporter never stops on a file it cannot read: the dimensions
\* are "N/A", every listed file gets its row and the total counts every
\* file.
C6_ReporterCompletes ==
    script = "info" =>
        /\ pc # "aborted"
        /\ \A i \in 1..Len(rows) :
             ~orig[files[i]].readable => rows[i].dims = <<"N/A">>
        /\ (pc = "done" /\ files # <<>>) =>
             /\ Len(rows) = Len(files)
             /\ summary = [total |-> ReporterSize(Sum([i \in 1..Len(files) |->
                                                  orig[files[i]]], "size"))]

\* C7: a non-zero exit of the tool is reported on the row of its file and
\* the loop goes on: the rows are those of the listed files, once each and
\* in order, and the run reaches the totals line however many files
\* failed.
C7_FailureIsolated ==
    script = "gif" =>
        /\ Len(rows) = pos
        /\ \A i \in 1..Len(rows) :
             /\ rows[i].file = files[i]
             /\ tool_log[i].file = files[i]
             /\ tool_log[i].returncode # 0 => rows[i].status # <<>>
        /\ (\A j \in 1..Len(files) : orig[files[j]].readable) => pc # "aborted"
        /\ (pc = "done" /\ files # <<>>) =>
             (pos = Len(files) /\ summary # NotPrinted)

\* What does hold of the loop when the tool fails: every listed file gets
\* one row, in order, a failure with a non-empty error text shows it, and
\* only a file Pillow cannot open ends the run early.
RowsFollowListing ==
    script = "gif" =>
        /\ Len(rows) = pos
        /\ \A i \in 1..Len(rows) :
             /\ rows[i].file = files[i]
             /\ tool_log[i].file = files[i]
             /\ (tool_log[i].returncode # 0 /\ Strip(tool_log[i].stderr) # <<>>)
                => rows[i].status = <<" [ERR: ", Strip(tool_log[i].stderr), "]">>
        /\ (\A j \in 1..Len(files) : orig[files[j]].readable) => pc # "aborted"
        /\ (pc = "done" /\ files # <<>>) =>
             (pos = Len(files) /\ summary # NotPrinted)

\* Under FairSpec: when Pillow can open every listed .gif, the totals line
\* is reached whatever the tool returns.
TotalsReached ==
    (/\ script = "gif"
     /\ pc = "main"
     /\ \E j \in 1..Len(disk) : disk[j].ext = ".gif"
     /\ \A j \in 1..Len(disk) : disk[j].ext = ".gif" => disk[j].readable)
    ~> (pc = "done" /\ pos = Len(files) /\ summary # NotPrinted)

\* C8: on success the original is replaced exactly when the output is
\* strictly smaller; otherwise it is unchanged and new_size is old_size.
\* In every case new_size is the size on disk.
C8_PromotionRule ==
    script = "gif" =>
        \A i \in 1..Len(rets) :
            LET f == files[i]
                replaced == /\ disk[f].ver = orig[f].ver + 1
                            /\ disk[f].size = tool_log[i].out.size
                            /\ disk[f].dims = tool_log[i].out.dims
            IN  /\ rets[i].new_size = disk[f].size
                /\ tool_log[i].returncode = 0 =>
                     /\ replaced <=> tool_log[i].out.size < rets[i].old_size
                     /\ ~replaced => /\ disk[f] = orig[f]
                                     /\ rets[i].new_size = rets[i].old_size

C8_Witness ==
    /\ script = "gif"
    /\ \E i \in 1..Len(rets) :
         /\ tool_log[i].returncode = 0
         /\ tool_log[i].out.size = rets[i].old_size
    /\ \E i \in 1..Len(rets) :
         /\ tool_log[i].returncode = 0
         /\ tool_log[i].out.size < rets[i].old_size

\* C9: the totals start at zero and grow once per processed file, so the
\* totals line shows the sums of the per-file sizes and savings; in the
\* GIF compressor total_new <= total_old and the percentage lies in
\* [0, 100], and it is 0 when total_old is 0.
SumSaved ==
    Sum([i \in 1..Len(rets) |->
           [saved |-> rets[i].old_size - rets[i].new_size]], "saved")

C9_RunTotals ==
    script \in {"gif", "png"} =>
        /\ (pc = "loop" /\ pos = 0) => (total_old = 0 /\ total_new = 0)
        /\ pc \in {"loop", "done", "aborted"} => Len(rets) = pos
        /\ total_old = Sum(rets, "old_size")
        /\ total_new = Sum(rets, "new_size")
        /\ total_old - total_new = SumSaved
        /\ (pc = "done" /\ files # <<>>) =>
             /\ pos = Len(files)
             /\ summary.total_old = CompressorSize(Sum(rets, "old_size"))
             /\ summary.total_new = CompressorSize(Sum(rets, "new_size"))
             /\ summary.saved = CompressorSize(SumSaved)
             /\ total_old = 0 => summary.pct.num = 0
             /\ script = "gif" =>
                  /\ total_new <= total_old
                  /\ summary.pct.num >= 0
                  /\ summary.pct.num <= 100 * summary.pct.den

C9_Witness ==
    /\ script = "gif"
    /\ pc = "done"
    /\ Len(rets) >= 2
    /\ \E i \in 1..Len(rets) : rets[i].new_size < rets[i].old_size
    /\ \E i \in 1..Len(rets) : tool_log[i].returncode # 0
    /\ summary.pct.num > 0

\* C10: the PNG/JPG compressor overwrites every file it processes, larger
\* or not, and a file that cannot be processed ends the run there: the
\* files after it are unmodified, the files before it stay overwritten
\* and no totals line is printed.
C10_NoIsolationNoGuard ==
    script = "png" =>
        /\ \A i \in 1..Len(rets) :
             /\ ~ImageRaises(orig[files[i]], max_width)
             /\ disk[files[i]].ver = orig[files[i]].ver + 1
             /\ disk[files[i]].size = rets[i].new_size
        /\ \A j \in (Len(rets) + 1)..Len(files) :
             disk[files[j]] = orig[files[j]]
        /\ pc = "aborted" =>
             /\ ImageRaises(orig[files[pos + 1]], max_width)
             /\ Len(rets) = pos
             /\ summary = NotPrinted
        /\ pc = "done" =>
             \A j \in 1..Len(files) : ~ImageRaises(orig[files[j]], max_width)

C10_Witness ==
    /\ script = "png"
    /\ pc = "aborted"
    /\ pos >= 1
    /\ pos + 1 < Len(files)
    /\ \E i \in 1..Len(rets) : rets[i].new_size > rets[i].old_size

====
